---------------------------- MODULE Spec2Model ----------------------------
(***************************************************************************)
(* A model of dynapins-server: the /v1/pins handler (handleGetPins), the   *)
(* domain whitelist (Validator.IsAllowed), the certificate retriever and   *)
(* its TTL cache (Retriever.GetCertificates), pin selection and hashing    *)
(* (GenerateSPKIHashes), token construction (CreateJWS) and the part of    *)
(* config.Load that builds the whitelist.                                  *)
(*                                                                         *)
(* Strings are sequences of characters; a character is a one-element       *)
(* string, except DotlessI which stands for U+0131.                        *)
(***************************************************************************)
EXTENDS Integers, Sequences, FiniteSets, TLC

VARIABLES
    phase,      \* the process: "boot" before config.Load, "serving", or "exit" after os.Exit(1)
    env,        \* the process environment read by config.Load
    config,     \* the config.Config built by Load
    keyID,      \* Server.keyID, computed once by NewWithRetriever
    now,        \* the wall clock, in ticks (TicksPerSecond ticks per second)
    cache,      \* Retriever.cache: a function from domain strings to cacheEntry
    mu,         \* Retriever.mu: [readers |-> number of read holders, writer |-> held exclusively]
    req,        \* the HTTP requests: [method, domain, backup] for each request
    pc,         \* each request's position in handleGetPins / GetCertificates
    loc,        \* each request's local variables
    resp,       \* each request's response: [status, code, token]
    calls,      \* per request: invocations of retriever.GetCertificates
    fetches,    \* per request: TLS dials performed by fetchCertificates
    handshakes  \* the requests whose TLS handshake completed, in order of completion,
                \* from the earliest one whose chain is still to be stored

vars == <<phase, env, config, keyID, now, cache, mu, req, pc, loc, resp, calls, fetches,
          handshakes>>

----------------------------------------------------------------------------
(* Bounds of the model *)

\* The most labels a generated host name has.
MaxLabels == 3
\* The number of concurrent requests of the server specification.
NumReq == 2
\* The last clock tick of the server specification.
MaxTime == 2
\* The cache TTL of the server specification when caching is enabled, in ticks.
MainCacheTTL == 2
\* The signature lifetime of the server specification, in ticks.
MainLifetime == 3
\* The longest certificate chain a TLS handshake returns.
MaxChain == 3
\* Ticks per second of the model clock (the code's clock has 10^9).
TicksPerSecond == 2
\* Signature lifetimes range over -MaxLifetime..MaxLifetime ticks.
MaxLifetime == 5
\* Issue instants of the signer specification range over 0..MaxInstant ticks.
MaxInstant == 5
\* The longest ALLOWED_DOMAINS string of the configuration specification.
MaxEnvLen == 3

(* Program constants *)
MaxDomainLen == 253
StatusOK == 200
StatusBadRequest == 400
StatusForbidden == 403
StatusMethodNotAllowed == 405
StatusUnprocessableEntity == 422
StatusInternalServerError == 500

----------------------------------------------------------------------------
(* Strings: the functions of Go's strings package that the code calls *)

DotlessI == "dotless-i"

\* unicode.ToLower on the characters of the model.
LowerRune(c) ==
    CASE c = "A" -> "a"
      [] c = "B" -> "b"
      [] c = "I" -> "i"
      [] OTHER -> c

\* unicode.ToUpper on the characters of the model; U+0131 maps to "I".
UpperRune(c) ==
    CASE c = "a" -> "A"
      [] c = "b" -> "B"
      [] c = "i" -> "I"
      [] c = DotlessI -> "I"
      [] OTHER -> c

ToLower(s) == [i \in 1..Len(s) |-> LowerRune(s[i])]

ToUpper(s) == [i \in 1..Len(s) |-> UpperRune(s[i])]

IsSpace(c) == c \in {" ", "\t"}

RECURSIVE TrimLeft(_)
TrimLeft(s) == IF s # <<>> /\ IsSpace(Head(s)) THEN TrimLeft(Tail(s)) ELSE s

RECURSIVE TrimRight(_)
TrimRight(s) ==
    IF s # <<>> /\ IsSpace(s[Len(s)]) THEN TrimRight(SubSeq(s, 1, Len(s) - 1)) ELSE s

TrimSpace(s) == TrimRight(TrimLeft(s))

HasPrefix(s, p) == Len(s) >= Len(p) /\ SubSeq(s, 1, Len(p)) = p

HasSuffix(s, p) == Len(s) >= Len(p) /\ SubSeq(s, Len(s) - Len(p) + 1, Len(s)) = p

Contains(s, c) == \E i \in 1..Len(s) : s[i] = c

\* strings.Split(s, sep) for a one-character separator.
RECURSIVE Split(_, _)
Split(s, sep) ==
    IF ~Contains(s, sep) THEN <<s>>
    ELSE LET i == CHOOSE k \in 1..Len(s) : s[k] = sep /\ \A j \in 1..(k - 1) : s[j] # sep
         IN  <<SubSeq(s, 1, i - 1)>> \o Split(SubSeq(s, i + 1, Len(s)), sep)

RECURSIVE Join(_, _)
Join(parts, sep) ==
    IF parts = <<>> THEN <<>>
    ELSE IF Len(parts) = 1 THEN parts[1]
    ELSE parts[1] \o sep \o Join(Tail(parts), sep)

----------------------------------------------------------------------------
(* net.ParseIP, as Go documents it: dotted-decimal IPv4, IPv6 with at most *)
(* one "::", an optional trailing dotted-decimal IPv4; no zone.            *)

DecDigits == {"0", "1", "2", "5", "9"}
HexDigits == DecDigits \cup {"a", "b"}

DecValue(c) ==
    CASE c = "0" -> 0 [] c = "1" -> 1 [] c = "2" -> 2 [] c = "5" -> 5 [] OTHER -> 9

RECURSIVE DecNumber(_)
DecNumber(s) == IF s = <<>> THEN 0 ELSE 10 * DecNumber(SubSeq(s, 1, Len(s) - 1)) + DecValue(s[Len(s)])

\* One field of a dotted-decimal address: 1 to 3 digits, no leading zero, at most 255.
IsIPv4Field(f) ==
    /\ Len(f) \in 1..3
    /\ \A i \in 1..Len(f) : f[i] \in DecDigits
    /\ (Len(f) > 1 => f[1] # "0")
    /\ DecNumber(f) <= 255

ParseIPv4(s) ==
    LET fields == Split(s, ".")
    IN  Len(fields) = 4 /\ \A i \in 1..4 : IsIPv4Field(fields[i])

IsHexGroup(g) == Len(g) \in 1..4 /\ \A i \in 1..Len(g) : g[i] \in HexDigits

\* The groups of one side of the "::": the empty side has none.
GroupsOf(s) == IF s = <<>> THEN <<>> ELSE Split(s, ":")

\* groups: the ":"-separated fields; the last one may be a dotted-decimal IPv4,
\* which fills two 16-bit groups. The number of 16-bit groups, or -1 when malformed.
GroupCount(groups, lastMayBeV4) ==
    LET n == Len(groups)
        v4 == lastMayBeV4 /\ n > 0 /\ Contains(groups[n], ".")
        hexN == IF v4 THEN n - 1 ELSE n
    IN  IF /\ \A i \in 1..hexN : IsHexGroup(groups[i])
           /\ (v4 => ParseIPv4(groups[n]))
        THEN hexN + (IF v4 THEN 2 ELSE 0)
        ELSE -1

ParseIPv6(s) ==
    LET ell == {k \in 1..(Len(s) - 1) : s[k] = ":" /\ s[k + 1] = ":"}
    IN  IF ell = {}
        THEN GroupCount(GroupsOf(s), TRUE) = 8
        ELSE LET k == CHOOSE x \in ell : \A y \in ell : x <= y
                 head == SubSeq(s, 1, k - 1)
                 tail == SubSeq(s, k + 2, Len(s))
                 hc == GroupCount(GroupsOf(head), FALSE)
                 tc == GroupCount(GroupsOf(tail), TRUE)
             IN  /\ Cardinality(ell) = 1
                 /\ hc >= 0 /\ tc >= 0
                 /\ hc + tc <= 7

\* TRUE when net.ParseIP(s) is not nil: the first of '.' and ':' decides the family.
ParseIP(s) ==
    LET marks == {k \in 1..Len(s) : s[k] \in {".", ":"}}
    IN  IF marks = {} THEN FALSE
        ELSE LET k == CHOOSE x \in marks : \A y \in marks : x <= y
             IN  IF s[k] = "." THEN ParseIPv4(s)
                 ELSE IF \E j \in 1..Len(s) : s[j] = "%" THEN FALSE
                 ELSE ParseIPv6(s)

----------------------------------------------------------------------------
(* The whitelist: Validator.IsAllowed *)

\* MatchFrom without the test that the wildcard's label holds no further dot.
RECURSIVE MatchFromAnyDepth(_, _, _)
MatchFromAnyDepth(allowedDomains, domain, i) ==
    IF i > Len(allowedDomains) THEN FALSE
    ELSE LET allowed == ToLower(TrimSpace(allowedDomains[i]))
             suffix == SubSeq(allowed, 3, Len(allowed))
         IN  IF domain = allowed THEN TRUE
             ELSE IF /\ HasPrefix(allowed, <<"*", ".">>)
                     /\ HasSuffix(domain, suffix)
                     /\ Len(domain) > Len(suffix)
                     /\ domain[Len(domain) - Len(suffix)] = "."
                  THEN TRUE
                  ELSE MatchFromAnyDepth(allowedDomains, domain, i + 1)

\* The loop over v.allowedDomains from index i on; TRUE at the first pattern that matches.
RECURSIVE MatchFrom(_, _, _)
MatchFrom(allowedDomains, domain, i) ==
    IF i > Len(allowedDomains) THEN FALSE
    ELSE LET allowed == ToLower(TrimSpace(allowedDomains[i]))
             suffix == SubSeq(allowed, 3, Len(allowed))
             prefix == SubSeq(domain, 1, Len(domain) - Len(suffix) - 1)
         IN  IF domain = allowed THEN TRUE
             ELSE IF /\ HasPrefix(allowed, <<"*", ".">>)
                     /\ HasSuffix(domain, suffix)
                     /\ Len(domain) > Len(suffix)
                     /\ domain[Len(domain) - Len(suffix)] = "."
                     /\ ~Contains(prefix, ".")
                  THEN TRUE
                  ELSE MatchFrom(allowedDomains, domain, i + 1)

\* The IP-literal gate at the head of IsAllowed.
RejectedAsIP(allowIPLiterals, domain) ==
    /\ ~allowIPLiterals
    /\ \/ ParseIP(domain)
       \/ /\ HasPrefix(domain, <<"[">>)
          /\ HasSuffix(domain, <<"]">>)
          /\ ParseIP(SubSeq(domain, 2, Len(domain) - 1))

\* IsAllowed comparing the input in the letter case it came in.
IsAllowedCaseSensitive(allowedDomains, allowIPLiterals, raw) ==
    LET domain == TrimSpace(raw)
    IN  IF RejectedAsIP(allowIPLiterals, domain) THEN FALSE
        ELSE MatchFrom(allowedDomains, domain, 1)

IsAllowed(allowedDomains, allowIPLiterals, raw) ==
    LET domain == ToLower(TrimSpace(raw))
    IN  IF RejectedAsIP(allowIPLiterals, domain) THEN FALSE
        ELSE MatchFrom(allowedDomains, domain, 1)

----------------------------------------------------------------------------
(* Certificates, pins and tokens *)

\* A certificate is its serial number and its SubjectPublicKeyInfo; certificate
\* MaxChain + 1 is a renewal of certificate 1 under the same key.
Cert(n) == [serial |-> n, spki |-> IF n = MaxChain + 1 THEN 1 ELSE n]

\* The chain of n certificates that starts at certificate k.
Chain(k, n) == [i \in 1..n |-> Cert(k + i - 1)]

\* base64(SHA-256(cert.RawSubjectPublicKeyInfo)): one value per SPKI.
GenerateSPKIHash(cert) == <<"sha256", cert.spki>>

\* GenerateSPKIHashes prepending each hash instead of appending it.
GenerateSPKIHashesPrepend(certs) ==
    [i \in 1..Len(certs) |-> GenerateSPKIHash(certs[Len(certs) + 1 - i])]

\* One hash per certificate, appended in the order of the chain.
GenerateSPKIHashes(certs) == [i \in 1..Len(certs) |-> GenerateSPKIHash(certs[i])]

\* CertsForPinning handing over the whole chain when backup pins are asked for.
CertsForPinningAll(includeBackup, certs) ==
    IF includeBackup /\ Len(certs) > 1 THEN certs
    ELSE IF Len(certs) > 0 THEN SubSeq(certs, 1, 1)
    ELSE <<>>

\* The certificates handleGetPins hands to GenerateSPKIHashes.
CertsForPinning(includeBackup, certs) ==
    IF includeBackup /\ Len(certs) > 1 THEN SubSeq(certs, 1, 2)
    ELSE IF Len(certs) > 0 THEN SubSeq(certs, 1, 1)
    ELSE <<>>

\* hex(SHA-256(DER(publicKey)))[:8]: one value per public key.
\* &privateKey.PublicKey: the public half of a key pair.
GetPublicKeyFromPrivate(privateKey) == <<"pub", privateKey>>

\* x509.MarshalPKIXPublicKey: the DER encoding, one per public key.
MarshalPKIXPublicKey(publicKey) == <<"der">> \o publicKey

\* sha256.Sum256: 32 bytes that depend on the data hashed.
Sum256(data) == [i \in 1..32 |-> (97 * data[Len(data)] + 31 * i) % 256]

\* hex.EncodeToString: two lower-case hexadecimal digits per byte.
HexAlphabet == <<"0", "1", "2", "3", "4", "5", "6", "7", "8", "9", "a", "b", "c", "d", "e", "f">>
RECURSIVE EncodeToString(_)
EncodeToString(bytes) ==
    IF bytes = <<>> THEN <<>>
    ELSE <<HexAlphabet[(bytes[1] \div 16) + 1], HexAlphabet[(bytes[1] % 16) + 1]>>
            \o EncodeToString(Tail(bytes))

\* GenerateKeyID keeping the first 8 bytes of the hash in place of 8 characters.
GenerateKeyIDLong(publicKey) ==
    SubSeq(EncodeToString(Sum256(MarshalPKIXPublicKey(publicKey))), 1, 16)

GenerateKeyID(publicKey) ==
    SubSeq(EncodeToString(Sum256(MarshalPKIXPublicKey(publicKey))), 1, 8)

\* time.Time.Unix(): whole seconds, rounded down.
Unix(t) == t \div TicksPerSecond

\* int(ttl.Seconds()): whole seconds, rounded towards zero.
WholeSeconds(d) == IF d >= 0 THEN d \div TicksPerSecond ELSE -((-d) \div TicksPerSecond)

\* jwt.Sign with ES256 in compact serialization: the signature is taken over the
\* protected header and the payload, and only the private key can produce it.
Signature(privateKey, header, claims) ==
    [key |-> privateKey, header |-> header, claims |-> claims]

\* CreateJWS with the kid header added after signing, outside the protected header.
CreateJWSKidUnprotected(privateKey, kid, domain, pins, ttl, t) ==
    LET header == [alg |-> "ES256", kid |-> kid]
        claims == [domain |-> domain, pins |-> pins, iat |-> Unix(t),
                   exp |-> Unix(t + ttl), ttl_seconds |-> WholeSeconds(ttl)]
    IN  [header |-> header, claims |-> claims,
         sig |-> Signature(privateKey, [alg |-> "ES256", kid |-> <<>>], claims)]

\* The token CreateJWS builds at clock reading t.
CreateJWS(privateKey, kid, domain, pins, ttl, t) ==
    LET header == [alg |-> "ES256", kid |-> kid]
        claims == [domain |-> domain, pins |-> pins, iat |-> Unix(t),
                   exp |-> Unix(t + ttl), ttl_seconds |-> WholeSeconds(ttl)]
    IN  [header |-> header, claims |-> claims,
         sig |-> Signature(privateKey, header, claims)]

----------------------------------------------------------------------------
(* Configuration: config.Load *)

Unset == [kind |-> "unset", val |-> 0]
Malformed == [kind |-> "malformed", val |-> 0]
Value(v) == [kind |-> "value", val |-> v]

\* The variables Load parses with getEnvInt and getEnvDuration before ALLOWED_DOMAINS.
ServerVars == {"PORT", "READ_TIMEOUT", "WRITE_TIMEOUT", "IDLE_TIMEOUT",
               "SHUTDOWN_TIMEOUT", "READ_HEADER_TIMEOUT", "MAX_HEADER_BYTES"}

\* getEnvInt, getEnvDuration: the default when unset.
GetEnvOr(e, key, default) == IF e[key].kind = "value" THEN e[key].val ELSE default

\* getEnvBool: the default when unset or unrecognised.
GetEnvBool(e, key, default) == IF e[key].kind = "value" THEN e[key].val ELSE default

\* SplitAllowedDomains without the TrimSpace of each entry.
SplitAllowedDomainsUntrimmed(str) == Split(str, ",")

\* cfg.AllowedDomains: ALLOWED_DOMAINS split on commas, each entry trimmed.
SplitAllowedDomains(str) ==
    LET parts == Split(str, ",")
    IN  [i \in 1..Len(parts) |-> TrimSpace(parts[i])]

\* TRUE when Load returns an error.
LoadFails(e) ==
    \/ \E k \in ServerVars : e[k].kind = "malformed"
    \/ e["ALLOWED_DOMAINS"] = <<>>
    \/ e["SIGNATURE_LIFETIME"].kind = "malformed"
    \/ e["PRIVATE_KEY_PEM"].kind # "value"
    \/ e["CERT_DIAL_TIMEOUT"].kind = "malformed"
    \/ e["CERT_CACHE_TTL"].kind = "malformed"

\* The Config Load returns when it succeeds.
LoadedConfig(e) ==
    [Port |-> GetEnvOr(e, "PORT", 8080),
     ReadTimeout |-> GetEnvOr(e, "READ_TIMEOUT", 10 * TicksPerSecond),
     AllowedDomains |-> SplitAllowedDomains(e["ALLOWED_DOMAINS"]),
     SignatureLifetime |-> GetEnvOr(e, "SIGNATURE_LIFETIME", 3600 * TicksPerSecond),
     PrivateKey |-> e["PRIVATE_KEY_PEM"].val,
     PublicKey |-> GetPublicKeyFromPrivate(e["PRIVATE_KEY_PEM"].val),
     AllowIPLiterals |-> GetEnvBool(e, "ALLOW_IP_LITERALS", FALSE),
     CertDialTimeout |-> GetEnvOr(e, "CERT_DIAL_TIMEOUT", 10 * TicksPerSecond),
     CertCacheTTL |-> GetEnvOr(e, "CERT_CACHE_TTL", 300 * TicksPerSecond)]

\* A Config built directly, as the tests build it.
MakeConfig(allowedDomains, allowIP, lifetime, cacheTTL) ==
    [Port |-> 8080, ReadTimeout |-> 10 * TicksPerSecond,
     AllowedDomains |-> allowedDomains, SignatureLifetime |-> lifetime,
     PrivateKey |-> 1, PublicKey |-> GetPublicKeyFromPrivate(1), AllowIPLiterals |-> allowIP,
     CertDialTimeout |-> 10 * TicksPerSecond, CertCacheTTL |-> cacheTTL]

----------------------------------------------------------------------------
(* The inputs the specifications draw from *)

Requests == 1..NumReq

Dot == <<".">>
Star == <<"*", ".">>
Pad(s) == <<" ">> \o s \o <<" ">>

LetterLabels == {<<"a">>, <<"b">>}

\* The host names of exactly k letter labels, and of at most k.
RECURSIVE NamesOf(_)
NamesOf(k) ==
    IF k <= 0 THEN {}
    ELSE IF k = 1 THEN LetterLabels
    ELSE {x \o Dot \o n : x \in LetterLabels, n \in NamesOf(k - 1)}

Names(k) == UNION {NamesOf(j) : j \in 1..k}

V4One == <<"1", ".", "1", ".", "1", ".", "1">>
V4Max == <<"2", "5", "5", ".", "0", ".", "9", ".", "1", "2">>
V6Loop == <<":", ":", "1">>
V6Hex == <<"a", ":", ":", "b">>
V6Any == <<":", ":">>
V6Mapped == <<":", ":", "1", ".", "1", ".", "1", ".", "1">>
V6Zone == V6Hex \o <<"%", "a">>
Bracket(s) == <<"[">> \o s \o <<"]">>

IPv4Literals == {V4One, V4Max}
IPv6Literals == {V6Loop, V6Hex, V6Any, V6Mapped}
BracketedLiterals == {Bracket(s) : s \in {V6Loop, V6Hex}}
IPLiterals == IPv4Literals \cup IPv6Literals \cup BracketedLiterals
ZonedLiterals == {V6Zone, Bracket(V6Zone)}

\* The patterns a whitelist of the validator specification holds.
ExactPatterns ==
    Names(MaxLabels - 1) \cup {Pad(ToUpper(n)) : n \in NamesOf(1)}
        \cup {V4One, V6Loop, Bracket(V6Loop), V6Zone, <<DotlessI>>, <<>>}

WildcardPatterns ==
    {Star \o n : n \in Names(MaxLabels - 1)} \cup {Pad(ToUpper(Star \o n)) : n \in NamesOf(1)}
        \cup {Star \o <<"1", ".", "1", ".", "1">>}

Patterns == ExactPatterns \cup WildcardPatterns

\* The whitelists: none, one or two patterns, in either order.
Whitelists == {<<>>} \cup {<<p>> : p \in Patterns} \cup {<<p, q>> : p \in Patterns, q \in Patterns}

\* The domain parameters a request of the validator specification carries.
DomainInputs ==
    Names(MaxLabels)
        \cup {Dot \o n : n \in Names(MaxLabels - 1)}
        \cup {ToUpper(n) : n \in Names(MaxLabels - 1)}
        \cup {Pad(n) : n \in Names(MaxLabels - 1)}
        \cup IPLiterals \cup ZonedLiterals \cup {Pad(V4One), ToUpper(V6Hex), Bracket(V4One)}
        \cup {<<DotlessI>>, <<"I">>, <<"i">>, <<" ">>, <<"*", ".", "a">>, <<"1", ".", "1", ".", "1">>}

\* The server specification: one whitelisted name, asked for in both letter cases,
\* one name that is not whitelisted, and a request without the parameter.
MainWhitelist == << <<"a">> >>
CacheTTLs == {0, MainCacheTTL}

\* The chains a TLS handshake of the server specification returns: a lone leaf,
\* and another leaf with its intermediate.
NetChains == {Chain(1, 1), Chain(2, 2)}

\* The chains a CertRetriever returns to the handler in the signer specification:
\* up to MaxChain certificates, and the empty chain, which a FakeRetriever returns
\* for a domain it was given no certificate for.
SignerChains == {Chain(k, n) : k \in 1..2, n \in 0..MaxChain}

Get(d, b) == [method |-> "GET", domain |-> d, backup |-> b]

\* A domain parameter one character longer than the handler accepts.
LongDomain == [i \in 1..(MaxDomainLen + 1) |-> "a"]

\* The requests of the server specification.
MainRequests ==
    <<Get(<<"a">>, ""), Get(<<"a">>, "true"), Get(<<"A">>, ""), Get(<<"A">>, "true"),
      Get(<<"b">>, ""), Get(<<>>, "true"), Get(LongDomain, ""),
      [method |-> "POST", domain |-> <<"a">>, backup |-> ""],
      [method |-> "POST", domain |-> <<>>, backup |-> ""]>>

NoRequest == [method |-> "", domain |-> <<>>, backup |-> ""]

NoEnv ==
    [k \in ServerVars \cup {"SIGNATURE_LIFETIME", "PRIVATE_KEY_PEM", "ALLOW_IP_LITERALS",
                            "CERT_DIAL_TIMEOUT", "CERT_CACHE_TTL", "ALLOWED_DOMAINS"} |->
        IF k = "ALLOWED_DOMAINS" THEN <<>> ELSE Unset]

----------------------------------------------------------------------------
(* The state after construction *)

NoEntry == [certs |-> <<>>, expiresAt |-> 0]

InitLocals ==
    [includeBackup |-> FALSE, found |-> FALSE, entry |-> NoEntry, certs |-> <<>>, pins |-> <<>>]

NoResponse == [status |-> 0, code |-> 0, token |-> <<>>]

\* What every specification starts from: an empty cache, a free lock, no request handled.
InitCommon ==
    /\ now = 0
    /\ cache = <<>>
    /\ mu = [readers |-> 0, writer |-> FALSE]
    /\ loc = [r \in Requests |-> InitLocals]
    /\ resp = [r \in Requests |-> NoResponse]
    /\ calls = [r \in Requests |-> 0]
    /\ fetches = [r \in Requests |-> 0]
    /\ handshakes = <<>>

\* The server after NewWithRetriever, with NumReq requests in flight. The requests
\* are interchangeable, so they are numbered in the order of MainRequests.
Init ==
    /\ InitCommon
    /\ phase = "serving"
    /\ env = NoEnv
    /\ \E ttl \in CacheTTLs : config = MakeConfig(MainWhitelist, FALSE, MainLifetime, ttl)
    /\ keyID = GenerateKeyID(config.PublicKey)
    /\ \E f \in [Requests -> 1..Len(MainRequests)] :
          /\ \A r \in Requests : r > 1 => f[r - 1] <= f[r]
          /\ req = [r \in Requests |-> MainRequests[f[r]]]
    /\ pc = [r \in Requests |-> "new"]

----------------------------------------------------------------------------
(* handleGetPins, up to the call of the retriever *)

\* ValidateRequest without the whitelist check.
ValidateRequestUngated(cfg, q) ==
    IF q.method # "GET" THEN StatusMethodNotAllowed
    ELSE IF q.domain = <<>> THEN StatusBadRequest
    ELSE IF Len(q.domain) = 0 \/ Len(q.domain) > MaxDomainLen THEN StatusBadRequest
    ELSE 0

\* ValidateRequest without the length limit on the domain parameter.
ValidateRequestUnbounded(cfg, q) ==
    IF q.method # "GET" THEN StatusMethodNotAllowed
    ELSE IF q.domain = <<>> THEN StatusBadRequest
    ELSE IF ~IsAllowed(cfg.AllowedDomains, cfg.AllowIPLiterals, q.domain) THEN StatusForbidden
    ELSE 0

\* ValidateRequest with the domain parameter examined before the method.
ValidateRequestDomainFirst(cfg, q) ==
    IF q.domain = <<>> THEN StatusBadRequest
    ELSE IF Len(q.domain) = 0 \/ Len(q.domain) > MaxDomainLen THEN StatusBadRequest
    ELSE IF q.method # "GET" THEN StatusMethodNotAllowed
    ELSE IF ~IsAllowed(cfg.AllowedDomains, cfg.AllowIPLiterals, q.domain) THEN StatusForbidden
    ELSE 0

\* The status handleGetPins answers before it reaches the retriever, or 0 when
\* the request passes the method, parameter and whitelist checks.
ValidateRequest(cfg, q) ==
    IF q.method # "GET" THEN StatusMethodNotAllowed
    ELSE IF q.domain = <<>> THEN StatusBadRequest
    ELSE IF Len(q.domain) = 0 \/ Len(q.domain) > MaxDomainLen THEN StatusBadRequest
    ELSE IF ~IsAllowed(cfg.AllowedDomains, cfg.AllowIPLiterals, q.domain) THEN StatusForbidden
    ELSE 0

\* IncludeBackup reading the parameter as getEnvBool reads a flag.
IncludeBackupLenient(includeBackupStr) == includeBackupStr \in {"true", "TRUE", "1"}

\* includeBackup := includeBackupStr == "true"
IncludeBackup(includeBackupStr) == includeBackupStr = "true"

\* writeError: the status line and the JSON body {error, code}.
WriteError(code) == [status |-> code, code |-> code, token |-> <<>>]

\* Receive without the return after the whitelist's 403: the error is written and
\* the handler goes on to the retriever.
ReceiveFallsThrough(r) ==
    /\ phase = "serving"
    /\ pc[r] = "new"
    /\ LET status == ValidateRequest(config, req[r])
       IN  IF status \notin {0, StatusForbidden}
           THEN /\ resp' = [resp EXCEPT ![r] = WriteError(status)]
                /\ pc' = [pc EXCEPT ![r] = "done"]
                /\ UNCHANGED <<loc, calls>>
           ELSE /\ loc' = [loc EXCEPT ![r].includeBackup = IncludeBackup(req[r].backup)]
                /\ calls' = [calls EXCEPT ![r] = @ + 1]
                /\ pc' = [pc EXCEPT ![r] = IF config.CertCacheTTL > 0 THEN "rlock" ELSE "fetch"]
                /\ resp' = IF status = 0 THEN resp
                           ELSE [resp EXCEPT ![r] = WriteError(status)]
    /\ UNCHANGED <<phase, env, config, keyID, now, cache, mu, req, fetches, handshakes>>

\* A request arrives: the checks, then either an error response or the call of
\* s.retriever.GetCertificates(domain), which starts at the cache lookup when
\* caching is enabled and at the fetch otherwise.
Receive(r) ==
    /\ phase = "serving"
    /\ pc[r] = "new"
    /\ LET status == ValidateRequest(config, req[r])
       IN  IF status # 0
           THEN /\ resp' = [resp EXCEPT ![r] = WriteError(status)]
                /\ pc' = [pc EXCEPT ![r] = "done"]
                /\ UNCHANGED <<loc, calls>>
           ELSE /\ loc' = [loc EXCEPT ![r].includeBackup = IncludeBackup(req[r].backup)]
                /\ calls' = [calls EXCEPT ![r] = @ + 1]
                /\ pc' = [pc EXCEPT ![r] = IF config.CertCacheTTL > 0 THEN "rlock" ELSE "fetch"]
                /\ UNCHANGED resp
    /\ UNCHANGED <<phase, env, config, keyID, now, cache, mu, req, fetches, handshakes>>

----------------------------------------------------------------------------
(* Retriever.GetCertificates *)

\* The order of completed handshakes h without its head while the call at its
\* head is not waiting to store its chain (position p[r] other than "lock"):
\* what is left tells which handshakes completed after one still to be stored.
RECURSIVE StillOrdered(_, _)
StillOrdered(h, p) ==
    IF h = <<>> THEN <<>>
    ELSE IF p[Head(h)] # "lock" THEN StillOrdered(Tail(h), p)
    ELSE h

\* The cache key of a call: the domain string as the handler passed it.
CacheKey(domain) == domain

\* The cache with the entry of key inserted or replaced.
CachePut(c, key, entry) ==
    [k \in DOMAIN c \cup {key} |-> IF k = key THEN entry ELSE c[k]]

\* r.mu.RLock(); entry, found := r.cache[domain]
RLockRead(r) ==
    /\ pc[r] = "rlock"
    /\ ~mu.writer
    /\ mu' = [mu EXCEPT !.readers = @ + 1]
    /\ LET key == CacheKey(req[r].domain)
           found == key \in DOMAIN cache
       IN  loc' = [loc EXCEPT ![r].found = found,
                              ![r].entry = IF found THEN cache[key] ELSE NoEntry]
    /\ pc' = [pc EXCEPT ![r] = "runlock"]
    /\ UNCHANGED <<phase, env, config, keyID, now, cache, req, resp, calls, fetches, handshakes>>

\* CacheHit with the expiry instant itself still counted as fresh.
CacheHitInclusive(found, entry, t) == found /\ t <= entry.expiresAt

\* found && time.Now().Before(entry.expiresAt)
CacheHit(found, entry, t) == found /\ t < entry.expiresAt

\* RUnlockCheck with the read lock kept on a miss, so that it is held over the fetch.
RUnlockCheckHeld(r) ==
    /\ pc[r] = "runlock"
    /\ IF CacheHit(loc[r].found, loc[r].entry, now)
       THEN /\ mu' = [mu EXCEPT !.readers = @ - 1]
            /\ loc' = [loc EXCEPT ![r].certs = loc[r].entry.certs,
                                   ![r].found = FALSE, ![r].entry = NoEntry]
            /\ pc' = [pc EXCEPT ![r] = "pins"]
       ELSE /\ mu' = mu
            /\ loc' = [loc EXCEPT ![r].found = FALSE, ![r].entry = NoEntry]
            /\ pc' = [pc EXCEPT ![r] = "fetch"]
    /\ UNCHANGED <<phase, env, config, keyID, now, cache, req, resp, calls, fetches, handshakes>>

\* r.mu.RUnlock(), then the expiry test: a hit returns the entry's chain to the
\* handler, a miss goes on to fetchCertificates.
RUnlockCheck(r) ==
    /\ pc[r] = "runlock"
    /\ mu' = [mu EXCEPT !.readers = @ - 1]
    /\ IF CacheHit(loc[r].found, loc[r].entry, now)
       THEN /\ loc' = [loc EXCEPT ![r].certs = loc[r].entry.certs,
                                   ![r].found = FALSE, ![r].entry = NoEntry]
            /\ pc' = [pc EXCEPT ![r] = "pins"]
       ELSE /\ loc' = [loc EXCEPT ![r].found = FALSE, ![r].entry = NoEntry]
            /\ pc' = [pc EXCEPT ![r] = "fetch"]
    /\ UNCHANGED <<phase, env, config, keyID, now, cache, req, resp, calls, fetches, handshakes>>

\* FetchOk going on to the store whatever the TTL is.
FetchOkAlwaysStore(r) ==
    /\ pc[r] = "fetch"
    /\ \E chain \in NetChains : loc' = [loc EXCEPT ![r].certs = chain]
    /\ fetches' = [fetches EXCEPT ![r] = @ + 1]
    /\ pc' = [pc EXCEPT ![r] = "lock"]
    /\ handshakes' = StillOrdered(Append(handshakes, r), pc')
    /\ UNCHANGED <<phase, env, config, keyID, now, cache, mu, req, resp, calls>>

\* fetchCertificates succeeds: the handshake returned a chain of at least one certificate.
FetchOk(r) ==
    /\ pc[r] = "fetch"
    /\ \E chain \in NetChains : loc' = [loc EXCEPT ![r].certs = chain]
    /\ fetches' = [fetches EXCEPT ![r] = @ + 1]
    /\ pc' = [pc EXCEPT ![r] = IF config.CertCacheTTL > 0 THEN "lock" ELSE "pins"]
    /\ handshakes' = StillOrdered(Append(handshakes, r), pc')
    /\ UNCHANGED <<phase, env, config, keyID, now, cache, mu, req, resp, calls>>

\* FetchFail caching the failure: an entry without certificates is stored.
FetchFailCached(r) ==
    /\ pc[r] = "fetch"
    /\ fetches' = [fetches EXCEPT ![r] = @ + 1]
    /\ cache' = CachePut(cache, CacheKey(req[r].domain),
                         [certs |-> <<>>, expiresAt |-> now + config.CertCacheTTL])
    /\ resp' = [resp EXCEPT ![r] = WriteError(StatusUnprocessableEntity)]
    /\ loc' = [loc EXCEPT ![r] = InitLocals]
    /\ pc' = [pc EXCEPT ![r] = "done"]
    /\ UNCHANGED <<phase, env, config, keyID, now, mu, req, calls, handshakes>>

\* FetchFail with one retry: the first failed dial is followed by a second attempt.
FetchFailRetry(r) ==
    /\ pc[r] = "fetch"
    /\ fetches' = [fetches EXCEPT ![r] = @ + 1]
    /\ IF fetches[r] = 0
       THEN UNCHANGED <<resp, loc, pc>>
       ELSE /\ resp' = [resp EXCEPT ![r] = WriteError(StatusUnprocessableEntity)]
            /\ loc' = [loc EXCEPT ![r] = InitLocals]
            /\ pc' = [pc EXCEPT ![r] = "done"]
    /\ UNCHANGED <<phase, env, config, keyID, now, cache, mu, req, calls, handshakes>>

\* FetchFail falling back on the cache: when the fetch fails and the domain has
\* an entry, expired or not, its chain is returned in place of the error.
FetchFailStale(r) ==
    /\ pc[r] = "fetch"
    /\ fetches' = [fetches EXCEPT ![r] = @ + 1]
    /\ IF CacheKey(req[r].domain) \in DOMAIN cache
       THEN /\ loc' = [loc EXCEPT ![r].certs = cache[CacheKey(req[r].domain)].certs]
            /\ pc' = [pc EXCEPT ![r] = "pins"]
            /\ UNCHANGED resp
       ELSE /\ resp' = [resp EXCEPT ![r] = WriteError(StatusUnprocessableEntity)]
            /\ loc' = [loc EXCEPT ![r] = InitLocals]
            /\ pc' = [pc EXCEPT ![r] = "done"]
    /\ UNCHANGED <<phase, env, config, keyID, now, cache, mu, req, calls, handshakes>>

\* fetchCertificates fails (dial error, handshake error, no peer certificate):
\* GetCertificates returns the error and handleGetPins answers 422.
FetchFail(r) ==
    /\ pc[r] = "fetch"
    /\ fetches' = [fetches EXCEPT ![r] = @ + 1]
    /\ resp' = [resp EXCEPT ![r] = WriteError(StatusUnprocessableEntity)]
    /\ loc' = [loc EXCEPT ![r] = InitLocals]
    /\ pc' = [pc EXCEPT ![r] = "done"]
    /\ UNCHANGED <<phase, env, config, keyID, now, cache, mu, req, calls, handshakes>>

\* LockStore with a second lookup under the write lock: a fresh entry stored by
\* another call meanwhile is returned in place of the chain this call fetched.
LockStoreDoubleChecked(r) ==
    /\ pc[r] = "lock"
    /\ mu.readers = 0 /\ ~mu.writer
    /\ mu' = [mu EXCEPT !.writer = TRUE]
    /\ LET key == CacheKey(req[r].domain)
       IN  IF key \in DOMAIN cache /\ now < cache[key].expiresAt
           THEN /\ loc' = [loc EXCEPT ![r].certs = cache[key].certs]
                /\ cache' = cache
           ELSE /\ cache' = CachePut(cache, key,
                                     [certs |-> loc[r].certs, expiresAt |-> now + config.CertCacheTTL])
                /\ loc' = loc
    /\ pc' = [pc EXCEPT ![r] = "unlock"]
    /\ handshakes' = StillOrdered(handshakes, pc')
    /\ UNCHANGED <<phase, env, config, keyID, now, req, resp, calls, fetches>>

\* LockStore sweeping the cache: the expired entries of other domains are deleted
\* while the write lock is held.
LockStoreSweeping(r) ==
    /\ pc[r] = "lock"
    /\ mu.readers = 0 /\ ~mu.writer
    /\ mu' = [mu EXCEPT !.writer = TRUE]
    /\ LET key == CacheKey(req[r].domain)
           kept == {k \in DOMAIN cache : now < cache[k].expiresAt}
       IN  cache' = CachePut([k \in kept |-> cache[k]], key,
                             [certs |-> loc[r].certs, expiresAt |-> now + config.CertCacheTTL])
    /\ pc' = [pc EXCEPT ![r] = "unlock"]
    /\ handshakes' = StillOrdered(handshakes, pc')
    /\ UNCHANGED <<phase, env, config, keyID, now, req, loc, resp, calls, fetches>>

\* r.mu.Lock(); r.cache[domain] = &cacheEntry{certs, time.Now().Add(r.cacheTTL)}
LockStore(r) ==
    /\ pc[r] = "lock"
    /\ mu.readers = 0 /\ ~mu.writer
    /\ mu' = [mu EXCEPT !.writer = TRUE]
    /\ cache' = CachePut(cache, CacheKey(req[r].domain),
                         [certs |-> loc[r].certs, expiresAt |-> now + config.CertCacheTTL])
    /\ pc' = [pc EXCEPT ![r] = "unlock"]
    /\ handshakes' = StillOrdered(handshakes, pc')
    /\ UNCHANGED <<phase, env, config, keyID, now, req, loc, resp, calls, fetches>>

\* Unlock returning without releasing the write lock.
UnlockLeaked(r) ==
    /\ pc[r] = "unlock"
    /\ pc' = [pc EXCEPT ![r] = "pins"]
    /\ UNCHANGED <<phase, env, config, keyID, now, cache, mu, req, loc, resp, calls,
                 fetches, handshakes>>

\* r.mu.Unlock(); return certs, nil
Unlock(r) ==
    /\ pc[r] = "unlock"
    /\ mu' = [mu EXCEPT !.writer = FALSE]
    /\ pc' = [pc EXCEPT ![r] = "pins"]
    /\ UNCHANGED <<phase, env, config, keyID, now, cache, req, loc, resp, calls, fetches,
                 handshakes>>

----------------------------------------------------------------------------
(* handleGetPins, after the retriever returned a chain *)

\* TokenFor signing the domain as IsAllowed normalised it, not as it was requested.
TokenForNormalised(r, t) ==
    CreateJWS(config.PrivateKey, keyID, ToLower(TrimSpace(req[r].domain)),
              GenerateSPKIHashes(CertsForPinning(loc[r].includeBackup, loc[r].certs)),
              config.SignatureLifetime, t)

\* The token of request r, signed at clock reading t.
TokenFor(r, t) ==
    CreateJWS(config.PrivateKey, keyID, req[r].domain,
              GenerateSPKIHashes(CertsForPinning(loc[r].includeBackup, loc[r].certs)),
              config.SignatureLifetime, t)

\* Pins are hashed, CreateJWS succeeds, the handler answers 200 {"jws": token}.
Sign(r) ==
    /\ pc[r] = "pins"
    /\ resp' = [resp EXCEPT ![r] = [status |-> StatusOK, code |-> 0, token |-> <<TokenFor(r, now)>>]]
    /\ loc' = [loc EXCEPT ![r] = InitLocals]
    /\ pc' = [pc EXCEPT ![r] = "done"]
    /\ UNCHANGED <<phase, env, config, keyID, now, cache, mu, req, calls, fetches, handshakes>>

\* CreateJWS returns an error: the handler answers 500.
SignFail(r) ==
    /\ pc[r] = "pins"
    /\ resp' = [resp EXCEPT ![r] = WriteError(StatusInternalServerError)]
    /\ loc' = [loc EXCEPT ![r] = InitLocals]
    /\ pc' = [pc EXCEPT ![r] = "done"]
    /\ UNCHANGED <<phase, env, config, keyID, now, cache, mu, req, calls, fetches, handshakes>>

\* Time passes. The locals of a request that returned are gone with its frame.
Tick ==
    /\ now < MaxTime
    /\ now' = now + 1
    /\ UNCHANGED <<phase, env, config, keyID, cache, mu, req, pc, loc, resp, calls,
                 fetches, handshakes>>

\* The next step of the goroutine that serves request r.
Handle(r) ==
    \/ Receive(r)
    \/ RLockRead(r)
    \/ RUnlockCheck(r)
    \/ FetchOk(r)
    \/ FetchFail(r)
    \/ LockStore(r)
    \/ Unlock(r)
    \/ Sign(r)
    \/ SignFail(r)

Next ==
    \/ \E r \in Requests : Handle(r)
    \/ Tick

Spec == Init /\ [][Next]_vars

\* The server with its goroutines scheduled fairly: a handler that can take its
\* next step takes it, a dial ends (in a chain or in an error, at the latest at the
\* dial timeout), and a goroutine waiting for the lock gets it once it stays free.
Fairness == \A r \in Requests : WF_vars(Handle(r))

\* The requests of the fair specification: two spellings of the whitelisted name,
\* which the cache keeps apart, and a name the whitelist rejects.
LiveRequests == <<Get(<<"a">>, ""), Get(<<"A">>, ""), Get(<<"b">>, "")>>

InitLive ==
    /\ InitCommon
    /\ phase = "serving"
    /\ env = NoEnv
    /\ \E ttl \in CacheTTLs : config = MakeConfig(MainWhitelist, FALSE, MainLifetime, ttl)
    /\ keyID = GenerateKeyID(config.PublicKey)
    /\ \E f \in [Requests -> 1..Len(LiveRequests)] :
          /\ \A r \in Requests : r > 1 => f[r - 1] <= f[r]
          /\ req = [r \in Requests |-> LiveRequests[f[r]]]
    /\ pc = [r \in Requests |-> "new"]

SpecLive == InitLive /\ [][Next]_vars /\ Fairness

----------------------------------------------------------------------------
(* The whitelist under every configuration: one request, any whitelist *)

\* Request 1 alone, with the others absent.
OnlyRequest(q) == [r \in Requests |-> IF r = 1 THEN q ELSE NoRequest]
OnlyPc(p) == [r \in Requests |-> IF r = 1 THEN p ELSE "idle"]

InitValidator ==
    /\ InitCommon
    /\ phase = "serving"
    /\ env = NoEnv
    /\ \E wl \in Whitelists, allowIP \in BOOLEAN :
          config = MakeConfig(wl, allowIP, MainLifetime, MainCacheTTL)
    /\ keyID = GenerateKeyID(config.PublicKey)
    /\ \E d \in DomainInputs : req = OnlyRequest(Get(d, ""))
    /\ pc = OnlyPc("new")

NextValidator == \E r \in Requests : Receive(r)

SpecValidator == InitValidator /\ [][NextValidator]_vars

----------------------------------------------------------------------------
(* Startup: main loads the configuration and builds the server *)

\* cfg, err := config.Load(); on error os.Exit(1), else srv := server.New(cfg).
Startup ==
    /\ phase = "boot"
    /\ IF LoadFails(env)
       THEN /\ phase' = "exit"
            /\ UNCHANGED <<config, keyID>>
       ELSE /\ phase' = "serving"
            /\ config' = LoadedConfig(env)
            /\ keyID' = GenerateKeyID(LoadedConfig(env).PublicKey)
    /\ UNCHANGED <<env, now, cache, mu, req, pc, loc, resp, calls, fetches, handshakes>>

\* The strings over alphabet of length k, and of length at most k.
RECURSIVE StringsOf(_, _)
StringsOf(alphabet, k) ==
    IF k = 0 THEN {<<>>}
    ELSE {<<c>> \o t : c \in alphabet, t \in StringsOf(alphabet, k - 1)}

StringsUpTo(alphabet, k) == UNION {StringsOf(alphabet, j) : j \in 0..k}

\* The environments: any short ALLOWED_DOMAINS, and at most one other variable set.
Envs ==
    {[NoEnv EXCEPT !["ALLOWED_DOMAINS"] = str, !["PRIVATE_KEY_PEM"] = Value(1), ![k] = v] :
        str \in StringsUpTo({"a", ",", " "}, MaxEnvLen),
        k \in {"PORT", "READ_TIMEOUT", "SIGNATURE_LIFETIME", "PRIVATE_KEY_PEM",
               "CERT_DIAL_TIMEOUT", "CERT_CACHE_TTL"},
        v \in {Value(1), Malformed, Unset}}

\* The domain parameters of the configuration specification.
ConfigDomains == {<<"a">>, <<" ">>, <<" ", " ">>, <<"b">>}

InitConfig ==
    /\ InitCommon
    /\ phase = "boot"
    /\ env \in Envs
    /\ config = MakeConfig(<<>>, FALSE, 0, 0)
    /\ keyID = <<>>
    /\ \E d \in ConfigDomains : req = OnlyRequest(Get(d, ""))
    /\ pc = OnlyPc("new")

NextConfig == Startup \/ \E r \in Requests : Receive(r)

SpecConfig == InitConfig /\ [][NextConfig]_vars

----------------------------------------------------------------------------
(* Hashing: GenerateSPKIHashes called on any list of certificates *)

\* The certificates of the hashing specification: MaxChain keys and a renewal.
Certificates == {Cert(n) : n \in 1..(MaxChain + 1)}

\* The lists of at most MaxChain certificates, repetitions included.
CertLists == StringsUpTo(Certificates, MaxChain)

\* pins := GenerateSPKIHashes(certs), by a caller that keeps both.
HashChain(r) ==
    /\ pc[r] = "hash"
    /\ loc' = [loc EXCEPT ![r].pins = GenerateSPKIHashes(loc[r].certs)]
    /\ pc' = [pc EXCEPT ![r] = "hashed"]
    /\ UNCHANGED <<phase, env, config, keyID, now, cache, mu, req, resp, calls, fetches,
                 handshakes>>

InitHash ==
    /\ phase = "serving"
    /\ env = NoEnv
    /\ config = MakeConfig(MainWhitelist, FALSE, MainLifetime, 0)
    /\ keyID = GenerateKeyID(config.PublicKey)
    /\ now = 0
    /\ cache = <<>>
    /\ mu = [readers |-> 0, writer |-> FALSE]
    /\ req = [r \in Requests |-> NoRequest]
    /\ \E certs \in CertLists :
          loc = [r \in Requests |-> IF r = 1 THEN [InitLocals EXCEPT !.certs = certs]
                                    ELSE InitLocals]
    /\ pc = OnlyPc("hash")
    /\ resp = [r \in Requests |-> NoResponse]
    /\ calls = [r \in Requests |-> 0]
    /\ fetches = [r \in Requests |-> 0]
    /\ handshakes = <<>>

NextHash == \E r \in Requests : HashChain(r)

SpecHash == InitHash /\ [][NextHash]_vars

----------------------------------------------------------------------------
(* Issuance: one request whose chain was retrieved, any lifetime, any instant *)

\* The values of include-backup-pins in the signer specification; "" is the
\* absent parameter.
BackupParams == {"true", "false", "", "TRUE", "1"}

\* The key pairs a server of the signer specification is configured with.
PrivateKeys == {1, 2}

InitSigner ==
    /\ phase = "serving"
    /\ env = NoEnv
    /\ \E lifetime \in (-MaxLifetime)..MaxLifetime, key \in PrivateKeys :
          config = [MakeConfig(MainWhitelist, FALSE, lifetime, 0)
                       EXCEPT !.PrivateKey = key, !.PublicKey = GetPublicKeyFromPrivate(key)]
    /\ keyID = GenerateKeyID(config.PublicKey)
    /\ now \in 0..MaxInstant
    /\ cache = <<>>
    /\ mu = [readers |-> 0, writer |-> FALSE]
    /\ \E b \in BackupParams, chain \in SignerChains :
          /\ req = OnlyRequest(Get(<<"a">>, b))
          /\ loc = [r \in Requests |->
                      IF r = 1 THEN [InitLocals EXCEPT !.includeBackup = IncludeBackup(b),
                                                       !.certs = chain]
                      ELSE InitLocals]
    /\ pc = OnlyPc("pins")
    /\ resp = [r \in Requests |-> NoResponse]
    /\ calls = [r \in Requests |-> IF r = 1 THEN 1 ELSE 0]
    /\ fetches = [r \in Requests |-> IF r = 1 THEN 1 ELSE 0]
    /\ handshakes = <<>>

NextSigner == \E r \in Requests : Sign(r) \/ SignFail(r)

SpecSigner == InitSigner /\ [][NextSigner]_vars

----------------------------------------------------------------------------
(* Properties of the server specification Spec *)

\* Request r passed the method and parameter checks and reached the whitelist.
ReachedWhitelist(r) ==
    /\ pc[r] \notin {"new", "idle"}
    /\ req[r].method = "GET"
    /\ req[r].domain # <<>>
    /\ Len(req[r].domain) <= MaxDomainLen

\* C1: a request whose domain IsAllowed rejects is answered 403, never invokes the
\* retriever (no call, no fetch, no cache entry under its domain) and gets no token;
\* and a 403 is only ever answered to a request that invoked nothing.
C1_WhitelistGatesRetrieval ==
    \A r \in Requests :
        /\ (/\ ReachedWhitelist(r)
            /\ ~IsAllowed(config.AllowedDomains, config.AllowIPLiterals, req[r].domain))
           => /\ pc[r] = "done"
              /\ resp[r].status = StatusForbidden
              /\ calls[r] = 0
              /\ fetches[r] = 0
              /\ resp[r].token = <<>>
              /\ req[r].domain \notin DOMAIN cache
        /\ resp[r].status = StatusForbidden => calls[r] = 0 /\ fetches[r] = 0

\* A rejected request answered 403 while another request was issued a token.
C1_Witness ==
    \E r, o \in Requests :
        /\ req[r].domain = <<"b">>
        /\ resp[r].status = StatusForbidden
        /\ resp[o].status = StatusOK

\* What one step of GetCertificates does for request r when caching is enabled:
\* the lookup snapshots the stored entry; a snapshot read at now < expiresAt is
\* returned as it is, without a fetch; otherwise the call goes on to fetch; a
\* fetch is one dial; a store puts the fetched chain under now + TTL.
C2_Step(r) ==
    LET key == req[r].domain
        e == loc[r].entry
    IN  /\ (pc[r] = "rlock" /\ pc'[r] = "runlock")
           => /\ loc'[r].found = (key \in DOMAIN cache)
              /\ loc'[r].found => loc'[r].entry = cache[key]
        /\ (pc[r] = "runlock" /\ pc'[r] # "runlock")
           => IF loc[r].found /\ now < e.expiresAt
              THEN /\ pc'[r] = "pins"
                   /\ loc'[r].certs = e.certs
                   /\ fetches'[r] = 0
              ELSE pc'[r] = "fetch"
        /\ (pc[r] = "fetch" /\ pc'[r] # "fetch") => fetches'[r] = fetches[r] + 1
        /\ (pc[r] = "lock" /\ pc'[r] = "unlock")
           => cache'[key] = [certs |-> loc[r].certs, expiresAt |-> now + config.CertCacheTTL]
        /\ (pc[r] = "pins" /\ fetches[r] = 0) => fetches'[r] = 0

\* C2: with cacheTTL > 0, a call that finds an entry at a time before its
\* expiresAt returns the cached chain and performs no fetch; a call at or after
\* expiresAt (or finding no entry) performs a fresh fetch.
C2_CacheRoundTrip == [][config.CertCacheTTL > 0 => \A r \in Requests : C2_Step(r)]_vars

\* A call was answered from the entry another call stored: it holds that chain
\* and never dialled.
C2_Witness ==
    \E r, o \in Requests :
        /\ r # o
        /\ pc[r] = "pins" /\ fetches[r] = 0 /\ Len(loc[r].certs) > 0
        /\ fetches[o] = 1 /\ req[o].domain = req[r].domain
        /\ cache[req[r].domain].certs = loc[r].certs

\* C3: a failed fetch ends the request with the error (422, no chain, no token) and
\* changes no cache entry; no stored entry is ever without certificates.
C3_FailureNotCached ==
    /\ [][\A r \in Requests :
            (pc[r] = "fetch" /\ resp'[r].status = StatusUnprocessableEntity)
            => /\ cache' = cache
               /\ resp'[r].token = <<>>
               /\ loc'[r].certs = <<>>]_vars
    /\ [](\A k \in DOMAIN cache : Len(cache[k].certs) >= 1)

\* A fetch failed for a domain whose (expired) entry is still in the cache.
C3_Witness ==
    \E r \in Requests :
        /\ resp[r].status = StatusUnprocessableEntity
        /\ req[r].domain \in DOMAIN cache

\* C8: cache entries are keyed by the lowercased domain, so requests that differ
\* only in letter case share one entry.
C8_LowercasedKeys ==
    /\ \A k \in DOMAIN cache : k = ToLower(k)
    /\ \A r, o \in Requests :
          (calls[r] = 1 /\ calls[o] = 1 /\ ToLower(req[r].domain) = ToLower(req[o].domain))
          => CacheKey(req[r].domain) = CacheKey(req[o].domain)

----------------------------------------------------------------------------
(* Properties of the whitelist, under SpecValidator *)

\* The request of the validator specification was handled; its domain, normalised.
Handled == ReachedWhitelist(1)
Input == ToLower(TrimSpace(req[1].domain))
Admitted == calls[1] = 1
Refused == pc[1] = "done" /\ resp[1].status = StatusForbidden /\ calls[1] = 0

\* The normalised whitelist, and which of its entries are wildcards.
PatternAt(i) == ToLower(TrimSpace(config.AllowedDomains[i]))
IsWildcard(p) == Len(p) >= 2 /\ p[1] = "*" /\ p[2] = "."
SuffixOf(p) == SubSeq(p, 3, Len(p))

\* d is x.suffix for a label x without a dot: non-empty, or possibly empty.
\* d is y.x.suffix: what precedes ".suffix" holds a dot.
Labelled(d, suffix) == \E n \in 1..Len(d) :
                          /\ \A j \in 1..n : d[j] # "."
                          /\ SubSeq(d, n + 1, Len(d)) = Dot \o suffix
Covered(d, suffix) == d = Dot \o suffix \/ Labelled(d, suffix)
Deeper(d, suffix) == \E n \in 1..Len(d) :
                        /\ \E j \in 1..n : d[j] = "."
                        /\ SubSeq(d, n + 1, Len(d)) = Dot \o suffix

\* Pattern p matches d: exactly, or as a wildcard of one dot-free label.
Matches(p, d) == p = d \/ (IsWildcard(p) /\ Covered(d, SuffixOf(p)))

\* C4 as stated: `*.suffix` allows x.suffix, and the bare suffix and y.x.suffix are
\* refused unless another pattern equals the input.
C4_WildcardAsStated ==
    Handled =>
        \A i \in 1..Len(config.AllowedDomains) :
            LET p == PatternAt(i)
            IN  IsWildcard(p) =>
                  /\ Labelled(Input, SuffixOf(p)) => Admitted
                  /\ (/\ Input = SuffixOf(p) \/ Deeper(Input, SuffixOf(p))
                      /\ \A j \in 1..Len(config.AllowedDomains) : PatternAt(j) # Input)
                     => Refused

\* C4, amended: for an input the IP-literal gate lets through, `*.suffix` allows
\* x.suffix; the bare suffix and y.x.suffix are refused unless another pattern of
\* the whitelist matches the input, exactly or as a wildcard of its own.
C4_WildcardOneLabel ==
    Handled =>
        \A i \in 1..Len(config.AllowedDomains) :
            LET p == PatternAt(i)
            IN  IsWildcard(p) =>
                  /\ (/\ Labelled(Input, SuffixOf(p))
                      /\ ~RejectedAsIP(config.AllowIPLiterals, Input))
                     => Admitted
                  /\ (/\ Input = SuffixOf(p) \/ Deeper(Input, SuffixOf(p))
                      /\ \A j \in 1..Len(config.AllowedDomains) :
                            j # i => ~Matches(PatternAt(j), Input))
                     => Refused

\* A whitelist of two wildcards refuses a name two labels below the first of them,
\* which the second does not match either.
C4_Witness ==
    /\ Refused
    /\ Len(config.AllowedDomains) = 2
    /\ IsWildcard(PatternAt(1)) /\ IsWildcard(PatternAt(2))
    /\ PatternAt(1) # PatternAt(2)
    /\ Deeper(Input, SuffixOf(PatternAt(1)))
    /\ Input \in Names(MaxLabels)

\* The IP literals among the inputs: as written, padded, in upper case, and the
\* IPv6 literals that carry a zone.
IPInputs == IPLiterals \cup {Pad(V4One), ToUpper(V6Hex)} \cup ZonedLiterals

\* C5: with allowIPLiterals false every IPv4, IPv6 and bracketed IPv6 literal is
\* refused, whatever the whitelist holds, and the handler answers 403 without
\* invoking the retriever.
C5_IPLiteralsRefused ==
    (Handled /\ ~config.AllowIPLiterals /\ req[1].domain \in IPInputs)
    => /\ Refused
       /\ fetches[1] = 0
       /\ resp[1].code = StatusForbidden

\* p as the claim varies it: in upper and lower case, and surrounded by whitespace.
Variants(p) ==
    LET cased == {p, ToUpper(p), ToLower(p)}
    IN  cased \cup {Pad(v) : v \in cased}

IsASCII(p) == \A i \in 1..Len(p) : p[i] # DotlessI

----------------------------------------------------------------------------
(* Properties of a loaded configuration, under SpecConfig *)

\* C6: under every configuration Load returns, an input that is empty after
\* trimming whitespace is refused with 403 and never reaches the retriever.
C6_BlankNeverAllowed ==
    \A r \in Requests :
        (ReachedWhitelist(r) /\ TrimSpace(req[r].domain) = <<>>)
        => /\ ~IsAllowed(config.AllowedDomains, config.AllowIPLiterals, req[r].domain)
           /\ calls[r] = 0
           /\ pc[r] = "done" /\ resp[r].status = StatusForbidden

----------------------------------------------------------------------------
(* Properties of issuance, under SpecSigner *)

\* The claims of the token a response carries.
ClaimsOf(response) == response.token[1].claims

\* C9: the pins of an issued token are the hashes of the first two certificates of
\* the retrieved chain, leaf first, when include-backup-pins is "true" and the
\* chain has at least two certificates, and the hash of the leaf alone otherwise.
C9_PinsFromPrefix ==
    [][\A r \in Requests :
          (pc[r] = "pins" /\ resp'[r].status = StatusOK /\ Len(loc[r].certs) >= 1)
          => LET certs == loc[r].certs
                 pins == ClaimsOf(resp'[r]).pins
             IN  IF req[r].backup = "true" /\ Len(certs) >= 2
                 THEN pins = <<GenerateSPKIHash(certs[1]), GenerateSPKIHash(certs[2])>>
                 ELSE pins = <<GenerateSPKIHash(certs[1])>>]_vars

\* A token with two pins was issued for a request that asked for backup pins;
\* its first pin is the leaf's.
C9_Witness ==
    /\ resp[1].status = StatusOK
    /\ req[1].backup = "true"
    /\ Len(ClaimsOf(resp[1]).pins) = 2
    /\ ClaimsOf(resp[1]).pins[1] # ClaimsOf(resp[1]).pins[2]

\* C10: in every token issued under a positive signature lifetime, exp - iat
\* equals ttl_seconds.
C10_ExpiryMatchesLifetime ==
    \A r \in Requests :
        (resp[r].status = StatusOK /\ config.SignatureLifetime > 0)
        => ClaimsOf(resp[r]).exp - ClaimsOf(resp[r]).iat = ClaimsOf(resp[r]).ttl_seconds

----------------------------------------------------------------------------
(* Properties of the handler's responses, under Spec *)

\* The error response of the given status, whatever its message.
IsError(response, status) ==
    response.status = status /\ response.code = status /\ response.token = <<>>

\* C11: a missing domain or one longer than 253 characters is answered 400, a
\* domain the whitelist rejects 403, an error of the retriever 422, an error of
\* signing 500; and the code of every error body is the status written.
C11_FixedStatusPerFailure ==
    /\ [](\A r \in Requests :
            /\ (pc[r] = "done" /\ req[r].method = "GET"
                  /\ (req[r].domain = <<>> \/ Len(req[r].domain) > MaxDomainLen))
               => IsError(resp[r], StatusBadRequest)
            /\ (ReachedWhitelist(r)
                  /\ ~IsAllowed(config.AllowedDomains, config.AllowIPLiterals, req[r].domain))
               => IsError(resp[r], StatusForbidden)
            /\ (pc[r] = "done" /\ resp[r].status # StatusOK)
               => /\ resp[r].code = resp[r].status
                  /\ resp[r].status \in {StatusBadRequest, StatusForbidden, StatusMethodNotAllowed,
                                         StatusUnprocessableEntity, StatusInternalServerError})
    /\ [][\A r \in Requests :
            /\ (pc[r] = "fetch" /\ pc'[r] = "done")
               => IsError(resp'[r], StatusUnprocessableEntity)
            /\ (pc[r] = "pins" /\ pc'[r] = "done" /\ resp'[r].token = <<>>)
               => IsError(resp'[r], StatusInternalServerError)]_vars

\* An over-long domain was answered 400 and a failed retrieval 422.
C11_Witness ==
    \E r, o \in Requests :
        /\ Len(req[r].domain) > MaxDomainLen
        /\ IsError(resp[r], StatusBadRequest)
        /\ fetches[o] = 1
        /\ IsError(resp[o], StatusUnprocessableEntity)

\* A complete signed token for request r: protected header, all five claims, and
\* a signature over exactly that header and those claims.
IsCompleteToken(token, r) ==
    /\ token.header.alg = "ES256" /\ token.header.kid # <<>>
    /\ token.claims.domain = req[r].domain
    /\ Len(token.claims.pins) \in 1..2
    /\ token.sig.header = token.header
    /\ token.sig.claims = token.claims

\* C12: a request has no response until it ends and exactly one when it has ended,
\* written once: a 200 with one complete signed token, given only to a request that
\* passed validation, whitelist, retrieval and signing, or one JSON error without a token.
C12_OneResponse ==
    /\ [](\A r \in Requests :
            /\ (pc[r] = "done") <=> (resp[r] # NoResponse)
            /\ pc[r] = "done" =>
                 IF resp[r].status = StatusOK
                 THEN /\ Len(resp[r].token) = 1
                      /\ IsCompleteToken(resp[r].token[1], r)
                      /\ ReachedWhitelist(r)
                      /\ IsAllowed(config.AllowedDomains, config.AllowIPLiterals, req[r].domain)
                      /\ calls[r] = 1
                 ELSE IsError(resp[r], resp[r].status))
    /\ [][\A r \in Requests :
            /\ resp[r] # NoResponse => resp'[r] = resp[r]
            /\ (pc[r] = "pins" /\ resp'[r].status = StatusOK) => Len(loc[r].certs) >= 1
            /\ (pc[r] # "pins" /\ resp'[r] # resp[r]) => resp'[r].token = <<>>]_vars

\* Both requests have ended, one with a token and one with an error of the retriever.
C12_Witness ==
    \E r, o \in Requests :
        /\ pc[r] = "done" /\ resp[r].status = StatusOK /\ Len(resp[r].token) = 1
        /\ pc[o] = "done" /\ IsError(resp[o], StatusUnprocessableEntity)

----------------------------------------------------------------------------
(* Properties of the cache lock, under Spec *)

\* The calls that hold r.mu: a reader between RLock and RUnlock, the writer
\* between Lock and Unlock.
Readers == {r \in Requests : pc[r] = "runlock"}
Writers == {r \in Requests : pc[r] = "unlock"}

\* C13: the lock is held by exactly the calls between RLock and RUnlock or between
\* Lock and Unlock, never by a call that is fetching; so while every other call
\* is fetching or outside the lock, a call can take the read lock for its lookup,
\* start its fetch, and take the write lock for its store at once.
C13_NoLockAcrossFetch ==
    /\ mu.readers = Cardinality(Readers)
    /\ mu.writer = (Writers # {})
    /\ Cardinality(Writers) <= 1
    /\ Writers # {} => Readers = {}
    /\ \A a, b \in Requests :
          (a # b /\ pc[a] = "fetch" /\ \A o \in Requests \ {a, b} : o \notin Readers \cup Writers)
          => /\ pc[b] = "rlock" => ENABLED RLockRead(b)
             /\ pc[b] = "runlock" => ENABLED RUnlockCheck(b)
             /\ pc[b] = "fetch" => ENABLED FetchOk(b)
             /\ pc[b] = "lock" => ENABLED LockStore(b)
             /\ pc[b] = "unlock" => ENABLED Unlock(b)

\* While a call for one domain is still fetching, a call for another domain that
\* started no earlier has fetched, stored its entry and returned.
C13_Witness ==
    \E a, b \in Requests :
        /\ pc[a] = "fetch"
        /\ req[b].domain # req[a].domain
        /\ pc[b] = "pins" /\ fetches[b] = 1
        /\ req[b].domain \in DOMAIN cache
        /\ req[a].domain \notin DOMAIN cache

\* C14: a call that saw no fresh entry at its lookup performs its own handshake,
\* whatever other calls for the same domain do or store meanwhile, and what it
\* returns to the handler is the chain of that handshake.
C14_NoSingleFlight ==
    /\ [](\A r \in Requests :
            /\ pc[r] = "fetch" => ENABLED FetchOk(r)
            /\ pc[r] \in {"lock", "unlock"} => fetches[r] = 1 /\ Len(loc[r].certs) >= 1)
    /\ [][\A r \in Requests :
            /\ (pc[r] = "fetch" /\ pc'[r] # "fetch") => fetches'[r] = fetches[r] + 1
            /\ (pc[r] \in {"lock", "unlock"}) => loc'[r].certs = loc[r].certs
            /\ (pc[r] = "lock" /\ pc'[r] = "unlock")
               => cache'[req[r].domain].certs = loc[r].certs]_vars

\* Two calls for the same domain each performed a handshake and each returns its
\* own chain, which differ.
C14_Witness ==
    \E r, o \in Requests :
        /\ r # o
        /\ req[r].domain = req[o].domain
        /\ config.CertCacheTTL > 0
        /\ fetches[r] = 1 /\ fetches[o] = 1
        /\ pc[r] = "pins" /\ pc[o] = "pins"
        /\ loc[r].certs # loc[o].certs

----------------------------------------------------------------------------
(* Termination, under SpecLive *)

\* C15: eventually every request has ended, whatever the others do; and when
\* no call is between a lock and its unlock, the lock is free.
C15_EveryCallReturns ==
    /\ <>(\A r \in Requests : pc[r] = "done")
    /\ [](Readers \cup Writers = {} => mu = [readers |-> 0, writer |-> FALSE])

\* Two requests for one domain have both ended after each of them fetched and
\* stored, with the lock free again.
C15_Witness ==
    \E r, o \in Requests :
        /\ r # o
        /\ req[r].domain = req[o].domain
        /\ pc[r] = "done" /\ pc[o] = "done"
        /\ fetches[r] = 1 /\ fetches[o] = 1
        /\ req[r].domain \in DOMAIN cache
        /\ mu = [readers |-> 0, writer |-> FALSE]

----------------------------------------------------------------------------
(* Properties of the key id, under Spec *)

\* C16: the key id is the first 8 hexadecimal characters of the SHA-256 of the
\* configured public key's DER encoding, it never changes while the server
\* runs, and every token issued carries it in its kid header and is signed with
\* the private half of that key.
C16_StableKeyID ==
    /\ [](/\ keyID = SubSeq(EncodeToString(Sum256(MarshalPKIXPublicKey(config.PublicKey))), 1, 8)
          /\ Len(keyID) = 8
          /\ \A i \in 1..Len(keyID) : \E j \in 1..16 : keyID[i] = HexAlphabet[j]
          /\ config.PublicKey = GetPublicKeyFromPrivate(config.PrivateKey)
          /\ \A r \in Requests :
                resp[r].status = StatusOK
                => /\ resp[r].token[1].header.kid = keyID
                   /\ resp[r].token[1].sig.header.kid = keyID
                   /\ resp[r].token[1].sig.key = config.PrivateKey)
    /\ [][keyID' = keyID /\ config'.PublicKey = config.PublicKey]_vars

\* Two tokens issued in different seconds carry the same key id.
C16_Witness ==
    \E r, o \in Requests :
        /\ resp[r].status = StatusOK /\ resp[o].status = StatusOK
        /\ resp[r].token[1].claims.iat # resp[o].token[1].claims.iat
        /\ resp[r].token[1].header.kid = resp[o].token[1].header.kid
        /\ resp[r].token[1].header.kid = keyID

----------------------------------------------------------------------------
(* Properties of the signature, under SpecSigner *)

\* Verification of a token under a public key: the signature is the one the
\* matching private key produces over the token's header and claims.
Verify(token, publicKey) ==
    \E key \in PrivateKeys :
        /\ GetPublicKeyFromPrivate(key) = publicKey
        /\ token.sig = Signature(key, token.header, token.claims)

\* The tokens that differ from token in one header parameter or one claim.
Tampered(token) ==
    {[token EXCEPT !.header.alg = "none"],
     [token EXCEPT !.header.kid = <<>>],
     [token EXCEPT !.claims.domain = @ \o <<"x">>],
     [token EXCEPT !.claims.pins = Append(@, <<"sha256", 0>>)],
     [token EXCEPT !.claims.iat = @ + 1],
     [token EXCEPT !.claims.exp = @ + 1],
     [token EXCEPT !.claims.ttl_seconds = @ + 1]}
    \cup (IF token.claims.pins = <<>> THEN {}
          ELSE {[token EXCEPT !.claims.pins = Tail(@)],
                [token EXCEPT !.claims.pins = [@ EXCEPT ![1] = <<"sha256", 0>>]]})

\* C17: an issued token verifies under the public key of the signing key and
\* under no other, and no token that differs from it in alg, kid, domain, a
\* pin, iat, exp or ttl_seconds verifies.
C17_SignatureCoversAll ==
    \A r \in Requests :
        resp[r].status = StatusOK
        => LET token == resp[r].token[1]
           IN  /\ Verify(token, config.PublicKey)
               /\ \A key \in PrivateKeys :
                     key # config.PrivateKey => ~Verify(token, GetPublicKeyFromPrivate(key))
               /\ \A other \in Tampered(token) :
                     other # token /\ ~Verify(other, config.PublicKey)

\* A token with two pins was issued under the second key.
C17_Witness ==
    /\ resp[1].status = StatusOK
    /\ config.PrivateKey = 2
    /\ Len(resp[1].token[1].claims.pins) = 2
    /\ Verify(resp[1].token[1], GetPublicKeyFromPrivate(2))

----------------------------------------------------------------------------
(* Properties of the retriever's calls, under Spec *)

\* The request's call of GetCertificates has returned to the handler.
Returned(r) == calls[r] = 1 /\ pc[r] \in {"pins", "done"}

\* C18: with a cache TTL of 0 no call takes the lock, looks the cache up or
\* stores into it, the cache stays empty, and every call that has returned
\* performed exactly one fetch.
C18_ZeroTTLDisablesCache ==
    config.CertCacheTTL = 0
    => /\ cache = <<>>
       /\ mu = [readers |-> 0, writer |-> FALSE]
       /\ \A r \in Requests :
             /\ pc[r] \notin {"rlock", "runlock", "lock", "unlock"}
             /\ ~loc[r].found /\ loc[r].entry = NoEntry
             /\ Returned(r) => fetches[r] = 1
             /\ fetches[r] <= calls[r]

\* With a TTL of 0, two calls for the same domain have returned, one after the
\* other, each after a fetch of its own, and the cache is empty.
C18_Witness ==
    \E r, o \in Requests :
        /\ r # o
        /\ config.CertCacheTTL = 0
        /\ req[r].domain = req[o].domain
        /\ pc[r] = "done" /\ resp[r].status = StatusOK /\ fetches[r] = 1
        /\ pc[o] = "pins" /\ fetches[o] = 1
        /\ cache = <<>>

\* The stages of a request in the order the handler goes through them.
StageOf(p) ==
    CASE p = "new" -> 0 [] p = "rlock" -> 1 [] p = "runlock" -> 2 [] p = "fetch" -> 3
      [] p = "lock" -> 4 [] p = "unlock" -> 5 [] p = "pins" -> 6 [] OTHER -> 7

\* C19: a request calls the retriever at most once and a call fetches at most
\* once; a step of a request takes it to a later stage, never back to one it has
\* been through; a failed fetch or signing ends the request in that very step;
\* and a request that has ended does nothing more.
C19_NothingRetried ==
    /\ [](\A r \in Requests : calls[r] <= 1 /\ fetches[r] <= calls[r])
    /\ [][\A r \in Requests :
            /\ pc'[r] # pc[r] => StageOf(pc'[r]) > StageOf(pc[r])
            /\ (calls'[r] # calls[r] \/ fetches'[r] # fetches[r] \/ resp'[r] # resp[r])
               => pc'[r] # pc[r]
            /\ (fetches'[r] # fetches[r] /\ loc'[r].certs = <<>>)
               => pc'[r] = "done" /\ resp'[r].status = StatusUnprocessableEntity
            /\ resp'[r].status = StatusInternalServerError => pc'[r] = "done"
            /\ pc[r] = "done"
               => /\ pc'[r] = "done" /\ resp'[r] = resp[r]
                  /\ calls'[r] = calls[r] /\ fetches'[r] = fetches[r]]_vars

\* A request whose only fetch failed has ended with 422 and, time having passed,
\* still has one call and one fetch to its name.
C19_Witness ==
    \E r \in Requests :
        /\ pc[r] = "done"
        /\ IsError(resp[r], StatusUnprocessableEntity)
        /\ calls[r] = 1 /\ fetches[r] = 1
        /\ now = MaxTime

\* C20: a request whose method is not GET is answered 405 with the JSON error
\* body in its first step, whatever its domain parameter is (missing, allowed or
\* not), and it never reaches the retriever or the signer: no call, no fetch, no
\* local of the handler set, no token.
C20_MethodNotAllowed ==
    /\ [](\A r \in Requests :
            req[r].method # "GET"
            => /\ pc[r] \in {"new", "done"}
               /\ calls[r] = 0 /\ fetches[r] = 0
               /\ loc[r] = InitLocals
               /\ pc[r] = "done" => IsError(resp[r], StatusMethodNotAllowed))
    /\ [][\A r \in Requests :
            (req[r].method # "GET" /\ pc'[r] # pc[r])
            => pc'[r] = "done" /\ resp'[r] = WriteError(StatusMethodNotAllowed)]_vars

\* Two POST requests, one without a domain parameter and one for a domain the
\* whitelist allows, have both been answered 405.
C20_Witness ==
    \E r, s \in Requests :
        /\ req[r].method # "GET" /\ req[r].domain = <<>>
        /\ req[s].method # "GET" /\ req[s].domain # <<>>
        /\ IsAllowed(config.AllowedDomains, config.AllowIPLiterals, req[s].domain)
        /\ pc[r] = "done" /\ IsError(resp[r], StatusMethodNotAllowed)
        /\ pc[s] = "done" /\ IsError(resp[s], StatusMethodNotAllowed)

----------------------------------------------------------------------------
(* Properties of issued tokens' validity, under SpecSigner *)

\* C21: every issued token has exp strictly after iat and a strictly positive
\* ttl_seconds, whatever signature lifetime the server was configured with.
C21_PositiveValidity ==
    \A r \in Requests :
        resp[r].status = StatusOK
        => /\ ClaimsOf(resp[r]).exp > ClaimsOf(resp[r]).iat
           /\ ClaimsOf(resp[r]).ttl_seconds > 0

----------------------------------------------------------------------------
(* Properties of GenerateSPKIHashes, under SpecHash *)

\* C22: the list GenerateSPKIHashes returns has one pin per certificate of its
\* input, pin i being the hash of certificate i (so an empty input gives an empty
\* list), the input is left as it was, and two certificates with the same
\* SubjectPublicKeyInfo, in whatever positions, get the same pin.
C22_OnePinPerCertificate ==
    \A r \in Requests :
        pc[r] = "hashed"
        => LET certs == loc[r].certs
               pins == loc[r].pins
           IN  /\ Len(pins) = Len(certs)
               /\ \A i \in 1..Len(certs) : pins[i] = GenerateSPKIHash(certs[i])
               /\ \A i, j \in 1..Len(certs) :
                     certs[i].spki = certs[j].spki => pins[i] = pins[j]

\* A full-length list was hashed in which a certificate and its renewal under the
\* same key got the same pin, and a certificate with another key a different one.
C22_Witness ==
    /\ pc[1] = "hashed"
    /\ Len(loc[1].certs) = MaxChain
    /\ \E i, j \in 1..MaxChain :
          /\ i < j
          /\ loc[1].certs[i].serial # loc[1].certs[j].serial
          /\ loc[1].certs[i].spki = loc[1].certs[j].spki
          /\ loc[1].pins[i] = loc[1].pins[j]
    /\ \E i, j \in 1..MaxChain : loc[1].pins[i] # loc[1].pins[j]

----------------------------------------------------------------------------
(* Properties of the cache's entries, under Spec *)

\* C23: no step removes a cache entry, and the entry of a domain is created or
\* changed only by the step in which a GetCertificates call for that very domain
\* string stores the chain its own successful fetch returned; every other entry
\* is the same after the step as before.
C23_EntriesOnlyReplaced ==
    [][/\ \A k \in DOMAIN cache : k \in DOMAIN cache'
       /\ \A k \in DOMAIN cache' :
             (k \notin DOMAIN cache \/ cache'[k] # cache[k])
             => \E r \in Requests :
                   /\ pc[r] = "lock" /\ pc'[r] = "unlock"
                   /\ req[r].domain = k
                   /\ fetches[r] = 1 /\ loc[r].certs # <<>>
                   /\ cache'[k].certs = loc[r].certs]_vars

\* Two domains have an entry; one of the entries has expired and is still stored.
C23_Witness ==
    \E k, other \in DOMAIN cache :
        /\ k # other
        /\ now >= cache[k].expiresAt
        /\ now < cache[other].expiresAt

----------------------------------------------------------------------------
(* Properties of the pins of a token, under SpecSigner *)

\* C24: a token issued for a request whose include-backup-pins is anything but
\* the string "true" (absent, "false", "TRUE", "1") carries no pin but the
\* leaf's: one pin, the hash of the first certificate, whenever the chain has a
\* first certificate; so a token with a second pin was asked for with "true".
C24_BackupOnlyOnTrue ==
    [][\A r \in Requests :
          (pc[r] = "pins" /\ resp'[r].status = StatusOK)
          => LET certs == loc[r].certs
                 pins == ClaimsOf(resp'[r]).pins
             IN  /\ req[r].backup # "true"
                    => pins = IF Len(certs) >= 1 THEN <<GenerateSPKIHash(certs[1])>> ELSE <<>>
                 /\ Len(pins) >= 2 => req[r].backup = "true"]_vars

\* Tokens with a single pin were issued for include-backup-pins "TRUE" and "1".
C24_Witness ==
    /\ resp[1].status = StatusOK
    /\ req[1].backup \in {"TRUE", "1"}
    /\ Len(ClaimsOf(resp[1]).pins) = 1

----------------------------------------------------------------------------
(* Properties of config.Load, under SpecConfig *)

\* The duration variables of the environment.
DurationVars ==
    {"READ_TIMEOUT", "WRITE_TIMEOUT", "IDLE_TIMEOUT", "SHUTDOWN_TIMEOUT",
     "READ_HEADER_TIMEOUT", "SIGNATURE_LIFETIME", "CERT_DIAL_TIMEOUT", "CERT_CACHE_TTL"}

\* The number of commas in str.
Commas(str) == Cardinality({i \in 1..Len(str) : str[i] = ","})

\* C25: startup ends without a configuration when ALLOWED_DOMAINS is unset, when
\* PRIVATE_KEY_PEM is unset or does not parse, or when PORT or a duration variable
\* is malformed; when it succeeds, an unset PORT, SIGNATURE_LIFETIME, READ_TIMEOUT
\* or CERT_DIAL_TIMEOUT has its default (8080, 1h, 10s, 10s), a set one its
\* value, and AllowedDomains has one entry per comma-separated piece of
\* ALLOWED_DOMAINS, each the piece without its surrounding white space.
C25_LoadContract ==
    [][phase = "boot"
       => /\ ( \/ env["ALLOWED_DOMAINS"] = <<>>
               \/ env["PRIVATE_KEY_PEM"].kind \in {"unset", "malformed"}
               \/ env["PORT"].kind = "malformed"
               \/ \E k \in DurationVars : env[k].kind = "malformed" )
             => phase' = "exit" /\ config' = config /\ keyID' = keyID
          /\ phase' = "serving"
             => LET str == env["ALLOWED_DOMAINS"]
                    Default(key, value) ==
                        IF env[key].kind = "unset" THEN value ELSE env[key].val
                IN  /\ config'.Port = Default("PORT", 8080)
                    /\ config'.SignatureLifetime
                          = Default("SIGNATURE_LIFETIME", 3600 * TicksPerSecond)
                    /\ config'.ReadTimeout = Default("READ_TIMEOUT", 10 * TicksPerSecond)
                    /\ config'.CertDialTimeout
                          = Default("CERT_DIAL_TIMEOUT", 10 * TicksPerSecond)
                    /\ config'.PrivateKey = env["PRIVATE_KEY_PEM"].val
                    /\ Len(config'.AllowedDomains) = Commas(str) + 1
                    /\ \A i \in 1..Len(config'.AllowedDomains) :
                          LET entry == config'.AllowedDomains[i]
                          IN  /\ entry = TrimSpace(Split(str, ",")[i])
                              /\ ~Contains(entry, ",")
                              /\ entry # <<>>
                                 => ~IsSpace(entry[1]) /\ ~IsSpace(entry[Len(entry)])]_vars

\* Load succeeded with every optional variable unset: the defaults are in the
\* configuration, and an entry of ALLOWED_DOMAINS was stored without the space
\* it was written with.
C25_Witness ==
    /\ phase = "serving"
    /\ \A k \in DurationVars \cup {"PORT"} : env[k].kind = "unset"
    /\ config.Port = 8080
    /\ config.SignatureLifetime = 3600 * TicksPerSecond
    /\ Len(config.AllowedDomains) = 2
    /\ \E i \in 1..2 :
          /\ config.AllowedDomains[i] = <<"a">>
          /\ Split(env["ALLOWED_DOMAINS"], ",")[i] # <<"a">>

----------------------------------------------------------------------------
(* Properties of wildcard patterns' labels, under SpecValidator *)

\* C26: an input that is admitted equals a pattern of the whitelist or is
\* x.suffix for a wildcard `*.suffix` of the whitelist and a non-empty label x
\* without a dot; in particular `.suffix` is not admitted through `*.suffix`.
C26_WildcardLabelNonEmpty ==
    (Handled /\ Admitted)
    => \E i \in 1..Len(config.AllowedDomains) :
          LET p == PatternAt(i)
          IN  \/ p = Input
              \/ IsWildcard(p) /\ Labelled(Input, SuffixOf(p))

\* C27: every token issued has one pin or two.
C27_OneOrTwoPins ==
    \A r \in Requests :
        resp[r].status = StatusOK => Len(ClaimsOf(resp[r]).pins) \in 1..2

----------------------------------------------------------------------------
(* Properties of overlapping calls for one domain, under Spec *)

\* The place of request r in the order of completed handshakes, 0 when it is not
\* in it.
HandshakeOf(r) ==
    IF \E i \in 1..Len(handshakes) : handshakes[i] = r
    THEN CHOOSE i \in 1..Len(handshakes) : handshakes[i] = r
    ELSE 0

\* C28: a call never replaces the entry of its domain by a chain other than the
\* stored one when another call for the same domain, whose handshake completed
\* after this call's, has already stored its chain.
C28_LaterHandshakeWins ==
    [][\A r \in Requests :
          (pc[r] = "lock" /\ pc'[r] = "unlock")
          => ~ \E s \in Requests \ {r} :
                  /\ req[s].domain = req[r].domain
                  /\ pc[s] \in {"pins", "done"}
                  /\ HandshakeOf(s) > HandshakeOf(r)
                  /\ cache[CacheKey(req[r].domain)].certs # loc[r].certs]_vars

----------------------------------------------------------------------------
(* Properties of expired entries, under Spec *)

\* C29: the lookup returns an entry's chain only if the entry was found and
\* the clock reads less than its expiresAt; on any other lookup the call goes on
\* to fetch with no chain in hand; and a call that fetches returns a chain only
\* by completing the fetch (storing it first when the cache is on): when the
\* fetch fails the request ends there with 422 and no token, an entry of the
\* domain being in the cache or not, and the cache is left as it was.
C29_ExpiredNeverReturned ==
    [][\A r \in Requests :
          /\ (pc[r] = "runlock" /\ pc'[r] # pc[r])
             => IF loc[r].found /\ now < loc[r].entry.expiresAt
                THEN pc'[r] = "pins" /\ loc'[r].certs = loc[r].entry.certs
                ELSE pc'[r] = "fetch" /\ loc'[r].certs = <<>>
          /\ (pc[r] = "fetch" /\ pc'[r] # pc[r])
             => \/ /\ pc'[r] = IF config.CertCacheTTL > 0 THEN "lock" ELSE "pins"
                   /\ loc'[r].certs \in NetChains
                   /\ resp'[r] = resp[r]
                \/ /\ pc'[r] = "done"
                   /\ resp'[r] = WriteError(StatusUnprocessableEntity)
                   /\ cache' = cache]_vars

\* A request was answered 422 after its one fetch while the cache holds an
\* expired entry, chain included, for its domain.
C29_Witness ==
    \E r \in Requests :
        /\ pc[r] = "done"
        /\ IsError(resp[r], StatusUnprocessableEntity)
        /\ fetches[r] = 1
        /\ CacheKey(req[r].domain) \in DOMAIN cache
        /\ now >= cache[CacheKey(req[r].domain)].expiresAt
        /\ cache[CacheKey(req[r].domain)].certs # <<>>

----------------------------------------------------------------------------
(* Properties of the domain a token is issued for, under Spec *)

\* C30: the domain claim of every issued token is, character for character, the
\* domain parameter of the request it answers, that request called the retriever
\* once, and IsAllowed accepts the claimed domain under the server's whitelist.
C30_DomainClaimIsRequested ==
    \A r \in Requests :
        resp[r].status = StatusOK
        => /\ Len(resp[r].token) = 1
           /\ resp[r].token[1].claims.domain = req[r].domain
           /\ calls[r] = 1
           /\ IsAllowed(config.AllowedDomains, config.AllowIPLiterals,
                        resp[r].token[1].claims.domain)

\* Two requests that spell one whitelisted domain differently were each issued a
\* token for their own spelling.
C30_Witness ==
    \E r, s \in Requests :
        /\ resp[r].status = StatusOK /\ resp[s].status = StatusOK
        /\ req[r].domain # req[s].domain
        /\ ToLower(req[r].domain) = ToLower(req[s].domain)
        /\ resp[r].token[1].claims.domain = req[r].domain
        /\ resp[s].token[1].claims.domain = req[s].domain

=============================================================================
